---- MODULE Spec2Model ----
(***************************************************************************)
(* Model of capytaine/symmetries.py: the ReflectionSymmetry and            *)
(* TranslationalSymmetry composite bodies, their constructors and their    *)
(* build_matrices methods (accelerated block assembly and generic          *)
(* fallback).                                                              *)
(*                                                                         *)
(* Indices are 0-based as in the Python source; a slice(lo, hi) is the     *)
(* pair <<lo, hi>> and covers lo..hi-1.                                    *)
(***************************************************************************)
EXTENDS Integers, Sequences, FiniteSets, TLC

\* Largest face count of a body and largest repetition count explored.
MaxFaces == 2
MaxRep == 2

VARIABLES
    half,       \* the original FloatingBody: [faces, keep, dofs]
    copies,     \* the sub-bodies made by the constructor: Seq([faces, keep, pos, mir])
    kind,       \* "none", "reflection" or "translation": class of the composite
    dofs,       \* self.dofs of the composite: renamed key -> vector
    ctor,       \* the last constructor call: its arguments and its outcome
    kern,       \* the sub-body kernel in use (external collaborator)
    pc,         \* position inside build_matrices
    args,       \* arguments of the running build_matrices call
    S, V,       \* the matrices being assembled (local to the call)
    Sw, Vw,     \* per cell, the writers ("eval"/"copy") that stored into it
    evals,      \* log of sub-body build_matrices calls made by this call
    fallbacks,  \* log of CollectionOfFloatingBodies.build_matrices calls
    result,     \* value returned by the call, or NoResult
    err,        \* exception leaving the call, or "none"
    bi, bj      \* loop indices of the call

vars == <<half, copies, kind, dofs, ctor, kern, pc, args, S, V, Sw, Vw,
          evals, fallbacks, result, err, bi, bj>>

ctorVars == <<half, copies, kind, dofs, ctor>>
callVars == <<pc, args, S, V, Sw, Vw, evals, fallbacks, result, err, bi, bj>>

Abs(x) == IF x < 0 THEN -x ELSE x

Uninit == -1
NoResult == [by |-> "none"]
NoArgs == [other |-> "none", force |-> FALSE, kwargs |-> "none"]
Empty == [c \in {} |-> 0]

\* **kwargs values a caller may pass to build_matrices.
Options == {"default", "finite_depth"}

\* Degrees of freedom of the original body: name -> one value per face.
DofNames == {"Surge", "Heave"}
DofVector(n, f) == IF n = "Surge" THEN [p \in 1..f |-> p] ELSE [p \in 1..f |-> 7]

\* np.concatenate([dof] * k)
RECURSIVE Concatenate(_, _)
Concatenate(dof, k) == IF k <= 0 THEN <<>> ELSE dof \o Concatenate(dof, k - 1)

\* self.subbodies, in the order given to CollectionOfFloatingBodies.__init__
Subbodies ==
    IF kind = "none" THEN <<>>
    ELSE <<[faces |-> half.faces, keep |-> half.keep, pos |-> 0, mir |-> FALSE]>> \o copies

RECURSIVE SumFaces(_)
SumFaces(bodies) ==
    IF bodies = <<>> THEN 0 ELSE Head(bodies).faces + SumFaces(Tail(bodies))

\* self.nb_faces of the composite
NbFaces == SumFaces(Subbodies)

(***************************************************************************)
(* Constructors                                                            *)
(***************************************************************************)

\* nb_repetitions values tried: integers -1..MaxRep and one non-integer (1.5,
\* which passes ">= 1" but not isinstance(int)).
Repetitions ==
    {[isInt |-> TRUE, val |-> n] : n \in (-1)..MaxRep} \cup {[isInt |-> FALSE, val |-> 1]}

ReflectionArgsValid(isBody, isPlane) == isBody /\ isPlane

TranslationArgsValidMut(isBody, nb, dim) ==
    isBody /\ nb.isInt /\ nb.val >= 0 /\ dim = 3

TranslationArgsValid(isBody, nb, dim) ==
    isBody /\ nb.isInt /\ nb.val >= 1 /\ dim = 3

\* ReflectionSymmetry.__init__(half, plane)
ReflectionInit(isBody, isPlane) ==
    /\ kind = "none"
    /\ pc = "idle"
    /\ IF ReflectionArgsValid(isBody, isPlane)
       THEN /\ half' = [half EXCEPT !.keep = @ * 2]
            /\ copies' = <<[faces |-> half.faces, keep |-> half.keep * 2,
                            pos |-> 1, mir |-> TRUE]>>
            /\ kind' = "reflection"
            /\ dofs' = [key \in {<<"mirrored_", n>> : n \in DOMAIN half.dofs} |->
                          half.dofs[key[2]] \o half.dofs[key[2]]]
            /\ ctor' = [op |-> "ReflectionSymmetry", isBody |-> isBody, isPlane |-> isPlane,
                        nb |-> [isInt |-> TRUE, val |-> 1], dim |-> 3, err |-> "none"]
       ELSE /\ ctor' = [op |-> "ReflectionSymmetry", isBody |-> isBody, isPlane |-> isPlane,
                        nb |-> [isInt |-> TRUE, val |-> 1], dim |-> 3, err |-> "AssertionError"]
            /\ UNCHANGED <<half, copies, kind, dofs>>
    /\ UNCHANGED <<kern, callVars>>

\* The slices appended by the loop of TranslationalSymmetry.__init__
TranslatedSlices(body_slice_keep, faces, nb_repetitions) ==
    [i \in 1..nb_repetitions |->
        [faces |-> faces, keep |-> body_slice_keep * (nb_repetitions + 1),
         pos |-> i, mir |-> FALSE]]

\* TranslationalSymmetry.__init__(body_slice, translation, nb_repetitions)
TranslationInit(isBody, nb, dim) ==
    /\ kind = "none"
    /\ pc = "idle"
    /\ IF TranslationArgsValid(isBody, nb, dim)
       THEN /\ half' = [half EXCEPT !.keep = @ * nb.val]
            /\ copies' = TranslatedSlices(half.keep * nb.val, half.faces, nb.val)
            /\ kind' = "translation"
            /\ dofs' = [key \in {<<"translated_", n>> : n \in DOMAIN half.dofs} |->
                          Concatenate(half.dofs[key[2]], nb.val)]
            /\ ctor' = [op |-> "TranslationalSymmetry", isBody |-> isBody, isPlane |-> TRUE,
                        nb |-> nb, dim |-> dim, err |-> "none"]
       ELSE /\ ctor' = [op |-> "TranslationalSymmetry", isBody |-> isBody, isPlane |-> TRUE,
                        nb |-> nb, dim |-> dim, err |-> "AssertionError"]
            /\ UNCHANGED <<half, copies, kind, dofs>>
    /\ UNCHANGED <<kern, callVars>>

(***************************************************************************)
(* External collaborators: the sub-body kernel (FloatingBody.build_matrices)*)
(* and the generic assembly (CollectionOfFloatingBodies.build_matrices).   *)
(***************************************************************************)

\* Kernels considered.  Each is unchanged when the symmetry operation is
\* applied to both arguments: its value depends on the pair of bodies only
\* through PairClass.  The first distinguishes every separation, the second
\* is also unchanged when its arguments are exchanged, the third is constant.
Separations == (-MaxRep)..MaxRep
Kernels == { [s \in Separations |-> s + MaxRep],
             [s \in Separations |-> Abs(s)],
             [s \in Separations |-> 0] }

\* What the symmetry leaves of an ordered pair of bodies: the signed multiple
\* of the translation from a to b, or for mirrored halves whether they lie on
\* the same side.
PairClass(a, b) == IF a.mir \/ b.mir THEN Abs(b.pos - a.pos) ELSE b.pos - a.pos

\* One entry of the kernel result at its native precision; the lowest bit is
\* precision that a complex64 cannot hold.
KernelEntry(a, b, p, q, which) ==
    2 * (((kern[PairClass(a, b)] * 2 + (IF which = "V" THEN 1 ELSE 0)) * 8 + p) * 8 + q)
      + ((p + q) % 2)

\* Storing into an array of dtype=np.complex64
Cast64(v) == v - (v % 2)

\* a.build_matrices(b): dense matrix of shape (a.faces, b.faces)
KernelMatrix(a, b, which) ==
    [rows |-> a.faces, cols |-> b.faces,
     at |-> [c \in (0..(a.faces - 1)) \X (0..(b.faces - 1)) |->
                KernelEntry(a, b, c[1], c[2], which)]]

\* accumulate(chain([0], (body.nb_faces for body in bodies)))
RECURSIVE Accumulate(_)
Accumulate(bodies) ==
    IF bodies = <<>> THEN <<0>>
    ELSE LET front == Accumulate(SubSeq(bodies, 1, Len(bodies) - 1))
         IN Append(front, front[Len(front)] + bodies[Len(bodies)].faces)

\* Index (0-based) of the body of `bodies` that owns face r
OwnerOf(bodies, r) ==
    LET off == Accumulate(bodies)
    IN CHOOSE i \in 0..(Len(bodies) - 1) : off[i + 1] <= r /\ r < off[i + 2]

\* Position of face r inside its body
LocalFace(bodies, r) == r - Accumulate(bodies)[OwnerOf(bodies, r) + 1]

OtherBodies(other) ==
    IF other = "self" THEN Subbodies
    ELSE <<[faces |-> half.faces, keep |-> half.keep, pos |-> 0, mir |-> FALSE]>>

\* CollectionOfFloatingBodies.build_matrices(self, other): every
\* (generator, other generator) pair evaluated, no reuse.
GenericAssembly(other, which) ==
    LET rowsOf == Subbodies
        colsOf == OtherBodies(other)
    IN [c \in (0..(SumFaces(rowsOf) - 1)) \X (0..(SumFaces(colsOf) - 1)) |->
          Cast64(KernelEntry(rowsOf[OwnerOf(rowsOf, c[1]) + 1],
                             colsOf[OwnerOf(colsOf, c[2]) + 1],
                             LocalFace(rowsOf, c[1]), LocalFace(colsOf, c[2]), which))]

(***************************************************************************)
(* numpy arrays                                                            *)
(***************************************************************************)

AllCells(n, m) == (0..(n - 1)) \X (0..(m - 1))

\* np.empty((n, m), dtype=np.complex64)
NpEmpty(n, m) == [c \in AllCells(n, m) |-> Uninit]

BlockRows(b) == b.rows[2] - b.rows[1]
BlockCols(b) == b.cols[2] - b.cols[1]
CellsOf(b) == (b.rows[1]..(b.rows[2] - 1)) \X (b.cols[1]..(b.cols[2] - 1))

\* M[b] read as a value
View(M, b) ==
    [rows |-> BlockRows(b), cols |-> BlockCols(b),
     at |-> [c \in AllCells(BlockRows(b), BlockCols(b)) |->
                M[<<b.rows[1] + c[1], b.cols[1] + c[2]>>]]]

\* numpy accepts M[b] = src when src broadcasts to the shape of M[b]
CanBroadcast(src, b) ==
    /\ src.rows \in {1, BlockRows(b)}
    /\ src.cols \in {1, BlockCols(b)}

\* M[b] = src
Assign(M, b, src) ==
    [c \in DOMAIN M |->
        IF c \in CellsOf(b)
        THEN Cast64(src.at[<<IF src.rows = 1 THEN 0 ELSE c[1] - b.rows[1],
                             IF src.cols = 1 THEN 0 ELSE c[2] - b.cols[1]>>])
        ELSE M[c]]

Mark(W, b, who) ==
    [c \in DOMAIN W |-> IF c \in CellsOf(b) THEN Append(W[c], who) ELSE W[c]]

(***************************************************************************)
(* build_matrices: steps shared by the two classes                         *)
(***************************************************************************)

InCall == pc \notin {"idle", "done", "raised"}

\* Entry into the accelerated branch: S and V allocated by np.empty
EnterAccelerated(other, force, kwargs, firstPc) ==
    /\ args' = [other |-> other, force |-> force, kwargs |-> kwargs]
    /\ S' = NpEmpty(NbFaces, SumFaces(OtherBodies(other)))
    /\ V' = NpEmpty(NbFaces, SumFaces(OtherBodies(other)))
    /\ Sw' = [c \in AllCells(NbFaces, SumFaces(OtherBodies(other))) |-> <<>>]
    /\ Vw' = [c \in AllCells(NbFaces, SumFaces(OtherBodies(other))) |-> <<>>]
    /\ evals' = <<>>
    /\ fallbacks' = <<>>
    /\ result' = NoResult
    /\ err' = "none"
    /\ bi' = 0
    /\ bj' = 0
    /\ pc' = firstPc

\* An exception leaves build_matrices: nothing is returned
Raise(e) ==
    /\ pc' = "raised"
    /\ err' = e
    /\ result' = NoResult

\* What build_matrices does when a sub-body kernel evaluation raises
OnKernelFailureMut(block, a, b) ==
    /\ evals' = Append(evals, [a |-> a, b |-> b, kwargs |-> args.kwargs, ok |-> FALSE])
    /\ UNCHANGED <<pc, err, result, args, S, V, Sw, Vw, fallbacks, bi, bj>>

OnKernelFailure(block, a, b) ==
    /\ evals' = Append(evals, [a |-> a, b |-> b, kwargs |-> args.kwargs, ok |-> FALSE])
    /\ Raise("KernelEvaluationFailure")
    /\ UNCHANGED <<args, S, V, Sw, Vw, fallbacks, bi, bj>>

\* S[block], V[block] = self.subbodies[a].build_matrices(self.subbodies[b], **kwargs)
\* followed by the move to nextPc with the loop indices ni, nj.
EvalInto(block, a, b, kernelOk, nextPc, ni, nj) ==
    IF ~kernelOk
    THEN OnKernelFailure(block, a, b)
    ELSE /\ evals' = Append(evals, [a |-> a, b |-> b, kwargs |-> args.kwargs, ok |-> TRUE])
         /\ IF CanBroadcast(KernelMatrix(Subbodies[a + 1], Subbodies[b + 1], "S"), block)
            THEN /\ S' = Assign(S, block, KernelMatrix(Subbodies[a + 1], Subbodies[b + 1], "S"))
                 /\ V' = Assign(V, block, KernelMatrix(Subbodies[a + 1], Subbodies[b + 1], "V"))
                 /\ Sw' = Mark(Sw, block, "eval")
                 /\ Vw' = Mark(Vw, block, "eval")
                 /\ pc' = nextPc
                 /\ bi' = ni
                 /\ bj' = nj
                 /\ UNCHANGED <<args, fallbacks, result, err>>
            ELSE /\ Raise("ValueError")
                 /\ UNCHANGED <<args, S, V, Sw, Vw, fallbacks, bi, bj>>

\* S[dst] = S[src]; V[dst] = V[src]
CopyInto(dst, src, nextPc, ni, nj) ==
    IF CanBroadcast(View(S, src), dst)
    THEN /\ S' = Assign(S, dst, View(S, src))
         /\ V' = Assign(V, dst, View(V, src))
         /\ Sw' = Mark(Sw, dst, "copy")
         /\ Vw' = Mark(Vw, dst, "copy")
         /\ pc' = nextPc
         /\ bi' = ni
         /\ bj' = nj
         /\ UNCHANGED <<args, evals, fallbacks, result, err>>
    ELSE /\ Raise("ValueError")
         /\ UNCHANGED <<args, S, V, Sw, Vw, evals, fallbacks, bi, bj>>

\* return S, V
ReturnMatrices ==
    /\ pc' = "done"
    /\ result' = [by |-> "accelerated", S |-> S, V |-> V]
    /\ UNCHANGED <<args, S, V, Sw, Vw, evals, fallbacks, err, bi, bj>>

\* return CollectionOfFloatingBodies.build_matrices(self, other, **kwargs)
Delegate(second, force, other, kwargs) ==
    /\ args' = [other |-> other, force |-> force, kwargs |-> kwargs]
    /\ fallbacks' = <<[self |-> "self", other |-> second, kwargs |-> kwargs]>>
    /\ result' = [by |-> "generic", S |-> GenericAssembly(second, "S"),
                  V |-> GenericAssembly(second, "V")]
    /\ pc' = "done"
    /\ err' = "none"
    /\ evals' = <<>>
    /\ S' = Empty
    /\ V' = Empty
    /\ Sw' = Empty
    /\ Vw' = Empty
    /\ bi' = 0
    /\ bj' = 0

(***************************************************************************)
(* ReflectionSymmetry.build_matrices                                       *)
(***************************************************************************)

\* The four quarters; slice(None, h) is <<0, h>> and slice(h, None) is <<h, n>>
Quarter(qi, qj) ==
    LET h == NbFaces \div 2
        rowsOf == IF qi = 0 THEN <<0, h>> ELSE <<h, NbFaces>>
        colsOf == IF qj = 0 THEN <<0, h>> ELSE <<h, NbFaces>>
    IN [rows |-> rowsOf, cols |-> colsOf]

top_left == Quarter(0, 0)
top_right == Quarter(0, 1)
bottom_left == Quarter(1, 0)
bottom_right == Quarter(1, 1)

\* The quarter copied into bottom_right
BottomRightSourceMut == top_right
BottomRightSource == top_left

\* The branch taken: other_body == self and not force_full_computation
UseSymmetry(other, force) == other = "self" /\ ~force

ReflectionBuild(other, force, kwargs) ==
    /\ kind = "reflection"
    /\ ~InCall
    /\ IF UseSymmetry(other, force)
       THEN EnterAccelerated(other, force, kwargs, "top_left")
       ELSE Delegate(other, force, other, kwargs)
    /\ UNCHANGED <<ctorVars, kern>>

ReflectionEvalTopLeft(kernelOk) ==
    /\ kind = "reflection"
    /\ pc = "top_left"
    /\ EvalInto(top_left, 0, 0, kernelOk, "top_right", 0, 1)
    /\ UNCHANGED <<ctorVars, kern>>

ReflectionEvalTopRight(kernelOk) ==
    /\ kind = "reflection"
    /\ pc = "top_right"
    /\ EvalInto(top_right, 0, 1, kernelOk, "bottom_left", 1, 0)
    /\ UNCHANGED <<ctorVars, kern>>

ReflectionCopyBottomLeft ==
    /\ kind = "reflection"
    /\ pc = "bottom_left"
    /\ CopyInto(bottom_left, top_right, "bottom_right", 1, 1)
    /\ UNCHANGED <<ctorVars, kern>>

ReflectionCopyBottomRight ==
    /\ kind = "reflection"
    /\ pc = "bottom_right"
    /\ CopyInto(bottom_right, BottomRightSource, "return", 1, 1)
    /\ UNCHANGED <<ctorVars, kern>>

ReflectionReturn ==
    /\ kind = "reflection"
    /\ pc = "return"
    /\ ReturnMatrices
    /\ UNCHANGED <<ctorVars, kern>>

(***************************************************************************)
(* TranslationalSymmetry.build_matrices                                    *)
(***************************************************************************)

\* nb_faces: the prefix sums of the sub-bodies' face counts
nb_faces == Accumulate(Subbodies)

\* matrix_blocks[i][j]
matrix_blocks(i, j) ==
    [rows |-> <<nb_faces[i + 1], nb_faces[i + 2]>>,
     cols |-> <<nb_faces[j + 1], nb_faces[j + 2]>>]

\* Number of turns of the loop over zip(matrix_blocks[0], self.subbodies)
NbEvaluationsMut(bodies) == Len(bodies) - 1
NbEvaluations(bodies) == Len(bodies)

\* First block line filled by the copy loop: range(1, len(matrix_blocks))
FirstCopiedLineMut(bodies) == 0
FirstCopiedLine(bodies) == 1

\* Column of the first line copied into block (i, j)
CopySourceMut(i, j) == j
CopySource(i, j) == Abs(j - i)

TranslationBuild(other, force, kwargs) ==
    /\ kind = "translation"
    /\ ~InCall
    /\ IF UseSymmetry(other, force)
       THEN EnterAccelerated(other, force, kwargs,
                             IF NbEvaluations(Subbodies) > 0 THEN "eval" ELSE "return")
       ELSE \* the else branch reads the local `body`, bound only by the loop
            \* of the accelerated branch
            /\ args' = [other |-> other, force |-> force, kwargs |-> kwargs]
            /\ Raise("UnboundLocalError")
            /\ fallbacks' = <<>>
            /\ evals' = <<>>
            /\ S' = Empty
            /\ V' = Empty
            /\ Sw' = Empty
            /\ Vw' = Empty
            /\ bi' = 0
            /\ bj' = 0
    /\ UNCHANGED <<ctorVars, kern>>

\* Position after the last evaluation / after the copy of block (i, j)
AfterEvals ==
    IF FirstCopiedLine(Subbodies) < Len(Subbodies)
    THEN <<"copy", FirstCopiedLine(Subbodies), 0>>
    ELSE <<"return", 0, 0>>

AfterCopy(i, j) ==
    IF j + 1 < Len(Subbodies) THEN <<"copy", i, j + 1>>
    ELSE IF i + 1 < Len(Subbodies) THEN <<"copy", i + 1, 0>>
    ELSE <<"return", i, j>>

TranslationEval(kernelOk) ==
    /\ kind = "translation"
    /\ pc = "eval"
    /\ LET next == IF bj + 1 < NbEvaluations(Subbodies)
                   THEN <<"eval", 0, bj + 1>> ELSE AfterEvals
       IN EvalInto(matrix_blocks(0, bj), 0, bj, kernelOk, next[1], next[2], next[3])
    /\ UNCHANGED <<ctorVars, kern>>

TranslationCopy ==
    /\ kind = "translation"
    /\ pc = "copy"
    /\ LET next == AfterCopy(bi, bj)
       IN CopyInto(matrix_blocks(bi, bj), matrix_blocks(0, CopySource(bi, bj)),
                   next[1], next[2], next[3])
    /\ UNCHANGED <<ctorVars, kern>>

TranslationReturn ==
    /\ kind = "translation"
    /\ pc = "return"
    /\ ReturnMatrices
    /\ UNCHANGED <<ctorVars, kern>>

(***************************************************************************)
(* Environment                                                             *)
(***************************************************************************)

AllEqualFaces == \A k \in 1..Len(Subbodies) : Subbodies[k].faces = Subbodies[1].faces

\* The caller edits the mesh of one sub-body of the composite (the sub-bodies
\* are ordinary mutable attributes), changing its face count.
ModifySubbody(k, f) ==
    /\ kind # "none"
    /\ pc = "idle"
    /\ AllEqualFaces
    /\ k \in 1..Len(Subbodies)
    /\ f # Subbodies[k].faces
    /\ IF k = 1
       THEN /\ half' = [half EXCEPT !.faces = f]
            /\ UNCHANGED copies
       ELSE /\ copies' = [copies EXCEPT ![k - 1].faces = f]
            /\ UNCHANGED half
    /\ UNCHANGED <<kind, dofs, ctor, kern, callVars>>

Init ==
    /\ \E f \in 1..MaxFaces :
          half = [faces |-> f, keep |-> 1, dofs |-> [n \in DofNames |-> DofVector(n, f)]]
    /\ copies = <<>>
    /\ kind = "none"
    /\ dofs = Empty
    /\ ctor = [op |-> "none", isBody |-> TRUE, isPlane |-> TRUE,
               nb |-> [isInt |-> TRUE, val |-> 1], dim |-> 3, err |-> "none"]
    /\ kern \in Kernels
    /\ pc = "idle"
    /\ args = NoArgs
    /\ S = Empty
    /\ V = Empty
    /\ Sw = Empty
    /\ Vw = Empty
    /\ evals = <<>>
    /\ fallbacks = <<>>
    /\ result = NoResult
    /\ err = "none"
    /\ bi = 0
    /\ bj = 0

Next ==
    \/ \E isBody \in BOOLEAN, isPlane \in BOOLEAN : ReflectionInit(isBody, isPlane)
    \/ \E isBody \in BOOLEAN, nb \in Repetitions, dim \in {2, 3} : TranslationInit(isBody, nb, dim)
    \/ \E k \in 1..(MaxRep + 1), f \in 1..MaxFaces : ModifySubbody(k, f)
    \/ \E other \in {"self", "half"}, force \in BOOLEAN, kwargs \in Options :
          ReflectionBuild(other, force, kwargs)
    \/ \E kernelOk \in BOOLEAN : ReflectionEvalTopLeft(kernelOk)
    \/ \E kernelOk \in BOOLEAN : ReflectionEvalTopRight(kernelOk)
    \/ ReflectionCopyBottomLeft
    \/ ReflectionCopyBottomRight
    \/ ReflectionReturn
    \/ \E other \in {"self", "half"}, force \in BOOLEAN, kwargs \in Options :
          TranslationBuild(other, force, kwargs)
    \/ \E kernelOk \in BOOLEAN : TranslationEval(kernelOk)
    \/ TranslationCopy
    \/ TranslationReturn

Spec == Init /\ [][Next]_vars

(***************************************************************************)
(* Properties                                                              *)
(***************************************************************************)

Accelerated == args.other = "self" /\ ~args.force
Returned == pc = "done" /\ result.by = "accelerated"
Generators == Len(Subbodies)

\* Cell (p, q) of block (i, j) of a returned matrix, the blocks being cut at
\* the prefix sums of the generators' face counts.
BlockCell(M, i, j, p, q) ==
    M[<<Accumulate(Subbodies)[i + 1] + p, Accumulate(Subbodies)[j + 1] + q>>]

FacesOf(i) == Subbodies[i + 1].faces

\* C1: the matrices returned by the accelerated path are those of the full
\* computation: every block (i, j), j < i included, holds the kernel
\* evaluation of (generator i, generator j).
C1_AcceleratedEqualsFull ==
    Returned =>
        /\ result.S = GenericAssembly("self", "S")
        /\ result.V = GenericAssembly("self", "V")

\* C2: the accelerated path runs exactly when other_body is self and
\* force_full_computation is false; every other call returns the generic
\* assembly of (self, other_body) with the options received, without error.
C2_PathSelection ==
    args.other # "none" =>
        IF Accelerated
        THEN fallbacks = <<>> /\ result.by # "generic"
        ELSE /\ pc = "done"
             /\ err = "none"
             /\ evals = <<>>
             /\ fallbacks = <<[self |-> "self", other |-> args.other, kwargs |-> args.kwargs]>>
             /\ result = [by |-> "generic", S |-> GenericAssembly(args.other, "S"),
                          V |-> GenericAssembly(args.other, "V")]

\* C3: in the matrices returned by the accelerated path of a translation
\* composite, block (i, j) equals block (0, |j - i|) cell by cell.
C3_Toeplitz ==
    (kind = "translation" /\ Returned) =>
        \A i, j \in 0..(Generators - 1) :
            \A p \in 0..(FacesOf(i) - 1), q \in 0..(FacesOf(j) - 1) :
                /\ BlockCell(result.S, i, j, p, q) = BlockCell(result.S, 0, Abs(j - i), p, q)
                /\ BlockCell(result.V, i, j, p, q) = BlockCell(result.V, 0, Abs(j - i), p, q)

C3_Witness ==
    /\ kind = "translation"
    /\ Returned
    /\ Generators = 3
    /\ half.faces = 2
    /\ kern[1] # kern[2]

\* C4: in the matrices returned by the accelerated path of a reflection
\* composite, with h = self.nb_faces / 2, the bottom-left quarter equals the
\* top-right one, the bottom-right quarter equals the top-left one, the
\* top-left quarter is the stored kernel result of (original, original) and
\* the top-right quarter that of (original, mirror).
C4_QuarterCopies ==
    (kind = "reflection" /\ Returned) =>
        LET h == NbFaces \div 2
        IN /\ 2 * h = NbFaces
           /\ \A p, q \in 0..(h - 1) :
                \A w \in {"S", "V"} :
                  LET M == IF w = "S" THEN result.S ELSE result.V
                  IN /\ M[<<h + p, q>>] = M[<<p, h + q>>]
                     /\ M[<<h + p, h + q>>] = M[<<p, q>>]
                     /\ M[<<p, q>>] = Cast64(KernelEntry(Subbodies[1], Subbodies[1], p, q, w))
                     /\ M[<<p, h + q>>] = Cast64(KernelEntry(Subbodies[1], Subbodies[2], p, q, w))

C4_Witness ==
    /\ kind = "reflection"
    /\ Returned
    /\ half.faces = 2
    /\ kern[0] # kern[1]

\* C5: an accelerated call evaluates the sub-body kernel on (generator 0,
\* generator j), j = 0, 1, ... in turn, never more than once each; a call
\* that returns has made exactly 2 evaluations for a reflection and exactly
\* nb_repetitions + 1 for a translation.
C5_EvaluationCount ==
    (args.other # "none" /\ Accelerated) =>
        /\ Len(evals) <= Generators
        /\ \A k \in 1..Len(evals) :
              /\ evals[k].a = 0
              /\ evals[k].b = k - 1
              /\ evals[k].kwargs = args.kwargs
        /\ Returned =>
              /\ Len(evals) = Generators
              /\ kind = "reflection" => Len(evals) = 2
              /\ kind = "translation" => Len(evals) = ctor.nb.val + 1

C5_Witness ==
    /\ kind = "translation"
    /\ Returned
    /\ Len(evals) = 3
    /\ args.kwargs = "finite_depth"

\* C6: for every degree of freedom of the original body the composite holds
\* one renamed entry of length (number of generators) x (original length)
\* whose generator-sized segments each equal the original vector.
C6_DofDuplication ==
    kind # "none" =>
        \A n \in DOMAIN half.dofs :
            LET key == <<(IF kind = "reflection" THEN "mirrored_" ELSE "translated_"), n>>
                len == Len(half.dofs[n])
            IN /\ key \in DOMAIN dofs
               /\ Len(dofs[key]) = Generators * len
               /\ \A g \in 0..(Generators - 1) :
                     SubSeq(dofs[key], g * len + 1, (g + 1) * len) = half.dofs[n]
               /\ AllEqualFaces /\ half.faces = len => Len(dofs[key]) = NbFaces

\* The constructor calls C7 says are rejected
Rejected(c) ==
    \/ /\ c.op = "TranslationalSymmetry"
       /\ ~c.isBody \/ ~c.nb.isInt \/ c.nb.val <= 0 \/ c.dim # 3
    \/ /\ c.op = "ReflectionSymmetry"
       /\ ~c.isBody \/ ~c.isPlane

C8_ShapeMismatchFirst ==
    (args.other # "none" /\ Accelerated /\ ~AllEqualFaces) =>
        /\ \A c \in DOMAIN Sw : Sw[c] = <<>>
        /\ \A c \in DOMAIN Vw : Vw[c] = <<>>
        /\ evals = <<>>
        /\ pc # "done"
        /\ pc = "raised" => err = "ShapeMismatch"

\* C9: once a kernel evaluation of an accelerated call has failed, the call
\* has ended with that failure: the failed evaluation is the last one made,
\* no copy has run, the generic assembly was not invoked, nothing is returned.
C9_KernelFailureAborts ==
    (\E k \in 1..Len(evals) : ~evals[k].ok) =>
        /\ pc = "raised"
        /\ err = "KernelEvaluationFailure"
        /\ result = NoResult
        /\ fallbacks = <<>>
        /\ \A k \in 1..Len(evals) : ~evals[k].ok => k = Len(evals)
        /\ \A c \in DOMAIN Sw : "copy" \notin {Sw[c][x] : x \in 1..Len(Sw[c])}
        /\ \A c \in DOMAIN Vw : "copy" \notin {Vw[c][x] : x \in 1..Len(Vw[c])}

C9_Witness ==
    /\ pc = "raised"
    /\ err = "KernelEvaluationFailure"
    /\ Len(evals) = 2
    /\ evals[1].ok
    /\ ~evals[2].ok

\* The block a pending copy step stores into and the block it reads
PendingCopy ==
    IF kind = "reflection"
    THEN IF pc = "bottom_left" THEN [dst |-> bottom_left, src |-> top_right]
         ELSE [dst |-> bottom_right, src |-> BottomRightSource]
    ELSE [dst |-> matrix_blocks(bi, bj), src |-> matrix_blocks(0, CopySource(bi, bj))]

\* C10: in an accelerated call on equal-sized generators no cell of S or V is
\* ever written twice (so evaluations write disjoint regions and copies write
\* only cells no evaluation wrote), a copy step is reached only with every
\* cell it reads already written by an evaluation of this call, and when the
\* call returns every cell of the self.nb_faces x self.nb_faces matrices has
\* been written exactly once.
C10_WriteDiscipline ==
    (args.other # "none" /\ Accelerated /\ AllEqualFaces) =>
        /\ \A c \in DOMAIN Sw : Len(Sw[c]) <= 1 /\ Len(Vw[c]) <= 1
        /\ pc \in {"bottom_left", "bottom_right", "copy"} =>
              /\ \A c \in CellsOf(PendingCopy.src) :
                    Sw[c] = <<"eval">> /\ Vw[c] = <<"eval">>
              /\ \A c \in CellsOf(PendingCopy.dst) :
                    Sw[c] = <<>> /\ Vw[c] = <<>>
        /\ Returned =>
              /\ DOMAIN result.S = AllCells(NbFaces, NbFaces)
              /\ DOMAIN result.V = AllCells(NbFaces, NbFaces)
              /\ \A c \in AllCells(NbFaces, NbFaces) :
                    /\ Len(Sw[c]) = 1 /\ Len(Vw[c]) = 1
                    /\ result.S[c] # Uninit /\ result.V[c] # Uninit

C10_Witness ==
    /\ kind = "translation"
    /\ pc = "copy"
    /\ bi = 2
    /\ bj = 1
    /\ AllEqualFaces

====
